---- MODULE Spec2Model ----
(***************************************************************************)
(* Model of go-mtree's keyword functions (keywordfuncs.go): the table      *)
(* KeywordFuncs and the extractors it names.  An entry is an os.FileInfo   *)
(* (mode, size, modification time, optional *tar.Header), the path's       *)
(* readlink(2) behaviour and the io.Reader over the entry's content.       *)
(*                                                                         *)
(* Strings are Go strings; fmt verbs are computed digit by digit.  The     *)
(* hash libraries are outside the repository: a digest is the symbolic     *)
(* term alg(bytes), which is injective in both the algorithm and input.    *)
(***************************************************************************)
EXTENDS Integers, Sequences, FiniteSets, TLC

VARIABLES info, fs, r, last, chain, pc

vars == <<info, fs, r, last, chain, pc>>

----------------------------------------------------------------------------
(* Bounds of the model *)

\* longest content stream, in bytes
MaxLen == 2
\* largest value of info.Size()
MaxSize == 11
\* modification times are taken within MaxOffset ns of each sampled instant
MaxOffset == 12

----------------------------------------------------------------------------
(* Go integer arithmetic and fmt verbs *)

\* the constant 1e9 of timeKeywordFunc
Billion == 1000000000

Abs(n) == IF n < 0 THEN -n ELSE n

\* Go's / truncates toward zero; the caller guards d # 0
GoDiv(n, d) ==
    LET q == Abs(n) \div Abs(d)
    IN  IF (n < 0) = (d < 0) THEN q ELSE -q

\* Go's % takes the sign of the dividend
GoMod(n, d) == n - d * GoDiv(n, d)

DigitChar(d) == SubSeq("0123456789", d + 1, d + 1)

RECURSIVE Digits(_, _)
\* the digits of n >= 0 in the given base, most significant first
Digits(n, base) ==
    IF n < base THEN DigitChar(n)
    ELSE Digits(n \div base, base) \o DigitChar(n % base)

RECURSIVE Zeros(_)
Zeros(k) == IF k <= 0 THEN "" ELSE "0" \o Zeros(k - 1)

\* fmt verb %d
FmtD(n) == IF n < 0 THEN "-" \o Digits(-n, 10) ELSE Digits(n, 10)

\* fmt verb %#o on an unsigned value: a leading 0 is added unless the
\* digits already start with one
FmtSharpO(n) ==
    LET d == Digits(n, 8)
    IN  IF SubSeq(d, 1, 1) = "0" THEN d ELSE "0" \o d

\* fmt verb %9.9d: at least 9 digits, the sign in front of them
Fmt99D(n) ==
    LET d == Digits(Abs(n), 10)
        p == Zeros(9 - Len(d)) \o d
    IN  IF n < 0 THEN "-" \o p ELSE p

Pow2(k) == 2 ^ k

\* v | (1 << b)
OrBit(v, b) == IF (v \div Pow2(b)) % 2 = 1 THEN v ELSE v + Pow2(b)

----------------------------------------------------------------------------
(* os.FileMode: the permission bits and the set of mode flags *)

TypeBits == {"ModeDir", "ModeSymlink", "ModeNamedPipe", "ModeSocket",
             "ModeDevice", "ModeCharDevice", "ModeIrregular"}

SpecialBits == {"ModeSetuid", "ModeSetgid", "ModeSticky"}

\* os.ModeType
ModeType == TypeBits

Perm(m) == m.perm % 512

IsDir(m) == "ModeDir" \in m.flags

IsRegular(m) == m.flags \cap ModeType = {}

----------------------------------------------------------------------------
(* tar.Header as seen through info.Sys() *)

TypeReg == "0"
TypeLink == "1"
TypeSymlink == "2"
TypeDir == "5"

\* info.Sys() of an entry read from the live filesystem
NoHeader == [isTar |-> FALSE, Typeflag |-> TypeReg, Linkname |-> ""]

TarHeader(flag, linkname) == [isTar |-> TRUE, Typeflag |-> flag, Linkname |-> linkname]

----------------------------------------------------------------------------
(* io.Reader over the content, and what one extractor call returns *)

NoFail == -1

NilErr == "nil"

\* ReadAll seeking to the beginning first
ReadAll_Rewind(rd) ==
    LET fails == rd.failAt >= 0
        end   == IF fails THEN rd.failAt ELSE Len(rd.content)
    IN  [bytes |-> SubSeq(rd.content, 1, end),
         err   |-> IF fails THEN "EIO" ELSE NilErr,
         pos   |-> end]

\* reading from the current position to EOF or to the first failing read
ReadAll(rd) ==
    LET fails == rd.failAt >= rd.pos
        end   == IF fails THEN rd.failAt ELSE Len(rd.content)
    IN  [bytes |-> SubSeq(rd.content, rd.pos + 1, end),
         err   |-> IF fails THEN "EIO" ELSE NilErr,
         pos   |-> end]

\* return token, err of a KeywordFunc that left the reader and the
\* filesystem alone
Ret(token, err, rd) ==
    [token |-> token, err |-> err, panicked |-> FALSE,
     pos |-> rd.pos, read |-> "", reads |-> 0, readlinks |-> 0]

\* the same after a pass over the reader
RetRead(token, err, rr) ==
    [token |-> token, err |-> err, panicked |-> FALSE,
     pos |-> rr.pos, read |-> rr.bytes, reads |-> 1, readlinks |-> 0]

\* a run-time panic: the call returns nothing
Panic(rd) ==
    [token |-> "", err |-> NilErr, panicked |-> TRUE,
     pos |-> rd.pos, read |-> "", reads |-> 0, readlinks |-> 0]

\* hex of h.Sum(nil) once bytes were written to a fresh newHash()
HexSum(newHash, bytes) == newHash \o "(" \o bytes \o ")"

RECURSIVE ByteSum(_)
ByteSum(bytes) ==
    IF bytes = "" THEN 0
    ELSE (IF SubSeq(bytes, 1, 1) = "a" THEN 1 ELSE 2) + 3 * ByteSum(Tail(bytes))

\* cksum(r): the checksum, the byte count and the read error
cksum(rd) ==
    LET rr == ReadAll(rd)
    IN  [sum |-> ByteSum(rr.bytes), len |-> Len(rr.bytes), err |-> rr.err, rr |-> rr]

----------------------------------------------------------------------------
(* The keyword functions *)

\* modeKeywordFunc with the setgid bit put where the sticky bit goes
modeKeywordFunc_SetgidAsSticky(i, f, rd) ==
    LET p0 == Perm(i.mode)
        p1 == IF "ModeSetuid" \in i.mode.flags THEN OrBit(p0, 11) ELSE p0
        p2 == IF "ModeSetgid" \in i.mode.flags THEN OrBit(p1, 9) ELSE p1
        p3 == IF "ModeSticky" \in i.mode.flags THEN OrBit(p2, 9) ELSE p2
    IN  Ret("mode=" \o FmtSharpO(p3), NilErr, rd)

modeKeywordFunc(i, f, rd) ==
    LET p0 == Perm(i.mode)
        p1 == IF "ModeSetuid" \in i.mode.flags THEN OrBit(p0, 11) ELSE p0
        p2 == IF "ModeSetgid" \in i.mode.flags THEN OrBit(p1, 10) ELSE p1
        p3 == IF "ModeSticky" \in i.mode.flags THEN OrBit(p2, 9) ELSE p2
    IN  Ret("mode=" \o FmtSharpO(p3), NilErr, rd)

\* sizeKeywordFunc taking the link target's length for hard links instead
sizeKeywordFunc_HardLink(i, f, rd) ==
    IF i.sys.isTar /\ i.sys.Typeflag = TypeLink
    THEN Ret("size=" \o FmtD(Len(i.sys.Linkname)), NilErr, rd)
    ELSE Ret("size=" \o FmtD(i.size), NilErr, rd)

sizeKeywordFunc(i, f, rd) ==
    IF i.sys.isTar /\ i.sys.Typeflag = TypeSymlink
    THEN Ret("size=" \o FmtD(Len(i.sys.Linkname)), NilErr, rd)
    ELSE Ret("size=" \o FmtD(i.size), NilErr, rd)

cksumKeywordFunc(i, f, rd) ==
    IF ~IsRegular(i.mode) THEN Ret("", NilErr, rd)
    ELSE LET c == cksum(rd)
         IN  IF c.err # NilErr THEN RetRead("", c.err, c.rr)
             ELSE RetRead("cksum=" \o FmtD(c.sum), NilErr, c.rr)

\* hasherKeywordFunc testing for a directory instead of a regular file
hasherKeywordFunc_DirOnly(name, newHash, i, f, rd) ==
    IF IsDir(i.mode) THEN Ret("", NilErr, rd)
    ELSE LET rr == ReadAll(rd)
         IN  IF rr.err # NilErr THEN RetRead("", rr.err, rr)
             ELSE RetRead(name \o "=" \o HexSum(newHash, rr.bytes), NilErr, rr)

hasherKeywordFunc(name, newHash, i, f, rd) ==
    IF ~IsRegular(i.mode) THEN Ret("", NilErr, rd)
    ELSE LET rr == ReadAll(rd)
         IN  IF rr.err # NilErr THEN RetRead("", rr.err, rr)
             ELSE RetRead(name \o "=" \o HexSum(newHash, rr.bytes), NilErr, rr)

tartimeKeywordFunc(i, f, rd) ==
    Ret("tar_time=" \o FmtD(i.modTime \div Billion) \o ".000000000", NilErr, rd)

timeKeywordFunc(i, f, rd) ==
    LET t == i.modTime
    IN  IF t = 0 THEN Ret("time=0.000000000", NilErr, rd)
        ELSE IF GoDiv(t, Billion) = 0 THEN Panic(rd)
        ELSE Ret("time=" \o FmtD(GoDiv(t, Billion)) \o "."
                     \o Fmt99D(GoMod(t, GoDiv(t, Billion))), NilErr, rd)

\* linkKeywordFunc going on to the symlink test when the header has no Linkname
linkKeywordFunc_FallThrough(i, f, rd) ==
    IF i.sys.isTar /\ i.sys.Linkname # ""
    THEN Ret("link=" \o i.sys.Linkname, NilErr, rd)
    ELSE IF "ModeSymlink" \in i.mode.flags
         THEN IF ~f.readlinkOk
              THEN [Ret("", "ENOENT", rd) EXCEPT !.readlinks = 1]
              ELSE [Ret("link=" \o f.target, NilErr, rd) EXCEPT !.readlinks = 1]
         ELSE Ret("", NilErr, rd)

linkKeywordFunc(i, f, rd) ==
    IF i.sys.isTar
    THEN IF i.sys.Linkname # ""
         THEN Ret("link=" \o i.sys.Linkname, NilErr, rd)
         ELSE Ret("", NilErr, rd)
    ELSE IF "ModeSymlink" \in i.mode.flags
         THEN IF ~f.readlinkOk
              THEN [Ret("", "ENOENT", rd) EXCEPT !.readlinks = 1]
              ELSE [Ret("link=" \o f.target, NilErr, rd) EXCEPT !.readlinks = 1]
         ELSE Ret("", NilErr, rd)

\* typeKeywordFunc with the character and block device tokens exchanged
typeKeywordFunc_DeviceSwapped(i, f, rd) ==
    LET m == i.mode
    IN  IF IsDir(m) THEN Ret("type=dir", NilErr, rd)
        ELSE IF IsRegular(m) THEN Ret("type=file", NilErr, rd)
        ELSE IF "ModeSocket" \in m.flags THEN Ret("type=socket", NilErr, rd)
        ELSE IF "ModeSymlink" \in m.flags THEN Ret("type=link", NilErr, rd)
        ELSE IF "ModeNamedPipe" \in m.flags THEN Ret("type=fifo", NilErr, rd)
        ELSE IF "ModeDevice" \in m.flags
             THEN IF "ModeCharDevice" \in m.flags
                  THEN Ret("type=device", NilErr, rd)
                  ELSE Ret("type=char", NilErr, rd)
        ELSE Ret("", NilErr, rd)

typeKeywordFunc(i, f, rd) ==
    LET m == i.mode
    IN  IF IsDir(m) THEN Ret("type=dir", NilErr, rd)
        ELSE IF IsRegular(m) THEN Ret("type=file", NilErr, rd)
        ELSE IF "ModeSocket" \in m.flags THEN Ret("type=socket", NilErr, rd)
        ELSE IF "ModeSymlink" \in m.flags THEN Ret("type=link", NilErr, rd)
        ELSE IF "ModeNamedPipe" \in m.flags THEN Ret("type=fifo", NilErr, rd)
        ELSE IF "ModeDevice" \in m.flags
             THEN IF "ModeCharDevice" \in m.flags
                  THEN Ret("type=char", NilErr, rd)
                  ELSE Ret("type=device", NilErr, rd)
        ELSE Ret("", NilErr, rd)

----------------------------------------------------------------------------
(* Keyword functions defined elsewhere in the package *)

uidKeywordFunc(i, f, rd) == Ret("uid=" \o FmtD(i.uid), NilErr, rd)

gidKeywordFunc(i, f, rd) == Ret("gid=" \o FmtD(i.gid), NilErr, rd)

nlinkKeywordFunc(i, f, rd) == Ret("nlink=" \o FmtD(i.nlink), NilErr, rd)

unameKeywordFunc(i, f, rd) == Ret("uname=" \o f.uname, NilErr, rd)

xattrKeywordFunc(i, f, rd) ==
    IF ~f.xattrOk THEN Ret("", "ENODATA", rd)
    ELSE Ret("xattr." \o f.xattrName \o "=" \o HexSum("sha1", f.xattrValue), NilErr, rd)

----------------------------------------------------------------------------
(* KeywordFuncs: keyword name -> keyword function *)

Func(fn) == [fn |-> fn, name |-> "", newHash |-> ""]

Hasher(name, newHash) == [fn |-> "hasher", name |-> name, newHash |-> newHash]

\* KeywordFuncs with sha1 printed under its own name
KeywordFuncs_Sha1Renamed ==
    [size            |-> Func("size"),
     type            |-> Func("type"),
     time            |-> Func("time"),
     link            |-> Func("link"),
     uid             |-> Func("uid"),
     gid             |-> Func("gid"),
     nlink           |-> Func("nlink"),
     uname           |-> Func("uname"),
     mode            |-> Func("mode"),
     cksum           |-> Func("cksum"),
     md5             |-> Hasher("md5digest", "md5"),
     md5digest       |-> Hasher("md5digest", "md5"),
     rmd160          |-> Hasher("ripemd160digest", "ripemd160"),
     rmd160digest    |-> Hasher("ripemd160digest", "ripemd160"),
     ripemd160digest |-> Hasher("ripemd160digest", "ripemd160"),
     sha1            |-> Hasher("sha1", "sha1"),
     sha1digest      |-> Hasher("sha1digest", "sha1"),
     sha256          |-> Hasher("sha256digest", "sha256"),
     sha256digest    |-> Hasher("sha256digest", "sha256"),
     sha384          |-> Hasher("sha384digest", "sha384"),
     sha384digest    |-> Hasher("sha384digest", "sha384"),
     sha512          |-> Hasher("sha512digest", "sha512"),
     sha512digest    |-> Hasher("sha512digest", "sha512"),
     tar_time        |-> Func("tar_time"),
     xattr           |-> Func("xattr"),
     xattrs          |-> Func("xattr")]

KeywordFuncs ==
    [size            |-> Func("size"),
     type            |-> Func("type"),
     time            |-> Func("time"),
     link            |-> Func("link"),
     uid             |-> Func("uid"),
     gid             |-> Func("gid"),
     nlink           |-> Func("nlink"),
     uname           |-> Func("uname"),
     mode            |-> Func("mode"),
     cksum           |-> Func("cksum"),
     md5             |-> Hasher("md5digest", "md5"),
     md5digest       |-> Hasher("md5digest", "md5"),
     rmd160          |-> Hasher("ripemd160digest", "ripemd160"),
     rmd160digest    |-> Hasher("ripemd160digest", "ripemd160"),
     ripemd160digest |-> Hasher("ripemd160digest", "ripemd160"),
     sha1            |-> Hasher("sha1digest", "sha1"),
     sha1digest      |-> Hasher("sha1digest", "sha1"),
     sha256          |-> Hasher("sha256digest", "sha256"),
     sha256digest    |-> Hasher("sha256digest", "sha256"),
     sha384          |-> Hasher("sha384digest", "sha384"),
     sha384digest    |-> Hasher("sha384digest", "sha384"),
     sha512          |-> Hasher("sha512digest", "sha512"),
     sha512digest    |-> Hasher("sha512digest", "sha512"),
     tar_time        |-> Func("tar_time"),
     xattr           |-> Func("xattr"),
     xattrs          |-> Func("xattr")]

Keywords == DOMAIN KeywordFuncs

DigestKeywords == {k \in Keywords : KeywordFuncs[k].fn = "hasher"}

\* KeywordFuncs[kw](path, info, r)
Call(kw, i, f, rd) ==
    LET e == KeywordFuncs[kw]
    IN  CASE e.fn = "size"     -> sizeKeywordFunc(i, f, rd)
          [] e.fn = "type"     -> typeKeywordFunc(i, f, rd)
          [] e.fn = "time"     -> timeKeywordFunc(i, f, rd)
          [] e.fn = "link"     -> linkKeywordFunc(i, f, rd)
          [] e.fn = "uid"      -> uidKeywordFunc(i, f, rd)
          [] e.fn = "gid"      -> gidKeywordFunc(i, f, rd)
          [] e.fn = "nlink"    -> nlinkKeywordFunc(i, f, rd)
          [] e.fn = "uname"    -> unameKeywordFunc(i, f, rd)
          [] e.fn = "mode"     -> modeKeywordFunc(i, f, rd)
          [] e.fn = "cksum"    -> cksumKeywordFunc(i, f, rd)
          [] e.fn = "hasher"   -> hasherKeywordFunc(e.name, e.newHash, i, f, rd)
          [] e.fn = "tar_time" -> tartimeKeywordFunc(i, f, rd)
          [] e.fn = "xattr"    -> xattrKeywordFunc(i, f, rd)

----------------------------------------------------------------------------
(* The caller: one entry, one reader, any sequence of keyword calls *)

NoCall ==
    [kw |-> "", pos0 |-> 0, chain0 |-> FALSE, token |-> "", err |-> NilErr,
     panicked |-> FALSE, pos |-> 0, read |-> "", reads |-> 0, readlinks |-> 0]

\* the caller looks kw up in KeywordFuncs and calls it on the entry
Invoke(kw) ==
    /\ pc = "running"
    /\ LET out == Call(kw, info, fs, r)
       IN  /\ last' = [kw |-> kw, pos0 |-> r.pos, chain0 |-> chain,
                       token |-> out.token, err |-> out.err,
                       panicked |-> out.panicked, pos |-> out.pos,
                       read |-> out.read, reads |-> out.reads,
                       readlinks |-> out.readlinks]
           /\ r' = [r EXCEPT !.pos = out.pos]
           /\ chain' = IF out.reads = 1 THEN out.err = NilErr ELSE chain
           /\ pc' = IF out.panicked THEN "crashed" ELSE "running"
    /\ UNCHANGED <<info, fs>>

InvokeSize == Invoke("size")
InvokeType == Invoke("type")
InvokeTime == Invoke("time")
InvokeTarTime == Invoke("tar_time")
InvokeLink == Invoke("link")
InvokeUid == Invoke("uid")
InvokeGid == Invoke("gid")
InvokeNlink == Invoke("nlink")
InvokeUname == Invoke("uname")
InvokeMode == Invoke("mode")
InvokeCksum == Invoke("cksum")
InvokeHasher == \E kw \in DigestKeywords : Invoke(kw)
InvokeXattr == \E kw \in {"xattr", "xattrs"} : Invoke(kw)

\* the caller seeks the reader back to the beginning
Reset ==
    /\ pc = "running"
    /\ r.present
    /\ r' = [r EXCEPT !.pos = 0]
    /\ chain' = FALSE
    /\ UNCHANGED <<info, fs, last, pc>>

----------------------------------------------------------------------------
(* Entries *)

RECURSIVE Content(_)
\* the first n bytes of the file
Content(n) == IF n = 0 THEN "" ELSE Content(n - 1) \o (IF n % 2 = 1 THEN "a" ELSE "b")

Readers ==
    { [present |-> TRUE, content |-> Content(n), pos |-> p, failAt |-> e] :
        n \in 0..MaxLen, p \in 0..MaxLen, e \in NoFail..MaxLen }

NilReader == [present |-> FALSE, content |-> "", pos |-> 0, failAt |-> NoFail]

ReaderOK(rd) == rd.pos <= Len(rd.content) /\ rd.failAt <= Len(rd.content)

FileInfo(flags, perm, size, modTime, sys) ==
    [mode |-> [flags |-> flags, perm |-> perm], size |-> size,
     modTime |-> modTime, sys |-> sys, uid |-> 1000, gid |-> 100, nlink |-> 1]

FileSystem(readlinkOk, xattrOk) ==
    [readlinkOk |-> readlinkOk, target |-> "dest", uname |-> "user",
     xattrOk |-> xattrOk, xattrName |-> "user.k", xattrValue |-> "v"]

\* a regular file comes with its content; anything else may come with any reader
InitReader ==
    /\ r \in Readers \cup {NilReader}
    /\ ReaderOK(r)
    /\ IsRegular(info.mode) => r.present

InitCaller == last = NoCall /\ chain = FALSE /\ pc = "running"

\* the type bits of each kind of entry, and two modes of no known kind
EntryTypes ==
    {{}, {"ModeDir"}, {"ModeSymlink"}, {"ModeNamedPipe"}, {"ModeSocket"},
     {"ModeDevice"}, {"ModeDevice", "ModeCharDevice"}, {"ModeCharDevice"},
     {"ModeIrregular"}}

\* entries of every type over readers in every state
Init ==
    /\ \E T \in EntryTypes, t \in {0, 5} :
         info = FileInfo(T, 420, MaxSize, t, NoHeader)
    /\ \E ok \in BOOLEAN : fs = FileSystem(ok, ok)
    /\ InitReader
    /\ InitCaller

Next ==
    \/ InvokeSize
    \/ InvokeType
    \/ InvokeTime
    \/ InvokeTarTime
    \/ InvokeLink
    \/ InvokeUid
    \/ InvokeGid
    \/ InvokeNlink
    \/ InvokeUname
    \/ InvokeMode
    \/ InvokeCksum
    \/ InvokeHasher
    \/ InvokeXattr
    \/ Reset

Spec == Init /\ [][Next]_vars

----------------------------------------------------------------------------
(* Entries from archives and from the filesystem: link and size *)

Linknames == {"", "abc", "target.txt"}

Headers ==
    {NoHeader} \cup
    {TarHeader(flag, n) : flag \in {TypeReg, TypeLink, TypeSymlink, TypeDir},
                          n \in Linknames}

\* the whole file, unread
WholeFile == [present |-> TRUE, content |-> Content(MaxLen), pos |-> 0, failAt |-> NoFail]

InitArchive ==
    /\ \E T \in EntryTypes, h \in Headers, n \in 0..MaxSize :
         info = FileInfo(T, 420, n, 0, h)
    /\ \E ok \in BOOLEAN : fs = FileSystem(ok, TRUE)
    /\ r = IF IsRegular(info.mode) THEN WholeFile ELSE NilReader
    /\ InitCaller

NextArchive ==
    \/ InvokeLink
    \/ InvokeSize
    \/ InvokeType

SpecArchive == InitArchive /\ [][NextArchive]_vars

----------------------------------------------------------------------------
(* Every permission value under every setuid, setgid, sticky combination *)

InitMode ==
    /\ \E T \in EntryTypes, S \in SUBSET SpecialBits, p \in 0..511 :
         info = FileInfo(T \cup S, p, 0, 0, NoHeader)
    /\ fs = FileSystem(TRUE, TRUE)
    /\ r = IF IsRegular(info.mode) THEN WholeFile ELSE NilReader
    /\ InitCaller

NextMode == InvokeMode

SpecMode == InitMode /\ [][NextMode]_vars

----------------------------------------------------------------------------
(* Every combination of mode flags *)

InitType ==
    /\ \E F \in SUBSET (TypeBits \cup SpecialBits) :
         info = FileInfo(F, 420, 0, 0, NoHeader)
    /\ fs = FileSystem(TRUE, TRUE)
    /\ r = IF IsRegular(info.mode) THEN WholeFile ELSE NilReader
    /\ InitCaller

NextType == InvokeType

SpecType == InitType /\ [][NextType]_vars

----------------------------------------------------------------------------
(* Modification times around whole seconds, before and after the epoch *)

TimeInstants == {-1500000000, -1000000000, 0, 1000000000, 1500000000, 2000000000}

TimeInputs == {b + d : b \in TimeInstants, d \in (-MaxOffset)..MaxOffset}

InitTime ==
    /\ \E t \in TimeInputs : info = FileInfo({}, 420, 0, t, NoHeader)
    /\ fs = FileSystem(TRUE, TRUE)
    /\ r = WholeFile
    /\ InitCaller

NextTime ==
    \/ InvokeTime
    \/ InvokeTarTime

SpecTime == InitTime /\ [][NextTime]_vars

----------------------------------------------------------------------------
(* Properties *)

ContentKeywords == DigestKeywords \cup {"cksum"}

\* the token a content keyword gives for the given bytes
TokenOver(kw, bytes) ==
    IF kw = "cksum" THEN "cksum=" \o FmtD(ByteSum(bytes))
    ELSE KeywordFuncs[kw].name \o "=" \o HexSum(KeywordFuncs[kw].newHash, bytes)

\* C1: on an entry that is not a regular file, every digest keyword and
\* cksum return the empty token and no error, and read nothing from the
\* reader, whether it is nil, failing or positioned anywhere.
C1_NonRegularIsEmpty ==
    (last.kw \in ContentKeywords /\ ~IsRegular(info.mode)) =>
        /\ last.token = ""
        /\ last.err = NilErr
        /\ ~last.panicked
        /\ last.reads = 0
        /\ last.read = ""
        /\ last.pos = last.pos0

C1_Witness ==
    /\ last.kw = "sha256digest"
    /\ info.mode.flags = {"ModeSymlink"}
    /\ r.present /\ r.failAt = 1 /\ last.pos0 = 1
    /\ last.token = ""

\* C2: every call ends with (token, nil), ("", nil) or ("", error), never
\* with an error next to a token; on a regular file a failing read makes a
\* digest keyword or cksum return an error.
C2_ThreeOutcomes ==
    last.kw # "" =>
        /\ ~last.panicked
        /\ last.err # NilErr => last.token = ""
        /\ (last.kw \in ContentKeywords /\ IsRegular(info.mode)
                /\ r.failAt >= last.pos0) => last.err # NilErr

\* C3: time=<seconds>.<fraction> with seconds = t / 1e9 and the fraction
\* t mod 1e9 on 9 digits; time=0.000000000 for t = 0.
C3_TimeSecondsAndNanos ==
    last.kw = "time" =>
        /\ ~last.panicked
        /\ last.err = NilErr
        /\ last.token = "time=" \o FmtD(info.modTime \div Billion) \o "."
                            \o Fmt99D(info.modTime % Billion)
        /\ info.modTime = 0 => last.token = "time=0.000000000"

\* C10: the time keyword returns for every modification time; the t = 0
\* case keeps it from dividing by zero whenever the seconds part is zero.
C10_TimeNeverDividesByZero ==
    last.kw = "time" => (~last.panicked /\ last.token # "")

\* the classifications of a mode: a character device is a device with the
\* character bit, a block device a device without it
Classifications(m) ==
    (IF "ModeDir" \in m.flags THEN {"dir"} ELSE {})
    \cup (IF m.flags \cap TypeBits = {} THEN {"file"} ELSE {})
    \cup (IF "ModeSocket" \in m.flags THEN {"socket"} ELSE {})
    \cup (IF "ModeSymlink" \in m.flags THEN {"link"} ELSE {})
    \cup (IF "ModeNamedPipe" \in m.flags THEN {"fifo"} ELSE {})
    \cup (IF {"ModeDevice", "ModeCharDevice"} \subseteq m.flags THEN {"char"} ELSE {})
    \cup (IF "ModeDevice" \in m.flags /\ "ModeCharDevice" \notin m.flags
          THEN {"device"} ELSE {})

\* the k-th test of typeKeywordFunc: its token, or "" when it does not apply
TypeTest(k, m) ==
    CASE k = 1 -> IF IsDir(m) THEN "type=dir" ELSE ""
      [] k = 2 -> IF IsRegular(m) THEN "type=file" ELSE ""
      [] k = 3 -> IF "ModeSocket" \in m.flags THEN "type=socket" ELSE ""
      [] k = 4 -> IF "ModeSymlink" \in m.flags THEN "type=link" ELSE ""
      [] k = 5 -> IF "ModeNamedPipe" \in m.flags THEN "type=fifo" ELSE ""
      [] k = 6 -> IF "ModeDevice" \notin m.flags THEN ""
                  ELSE IF "ModeCharDevice" \in m.flags THEN "type=char"
                  ELSE "type=device"

RECURSIVE TypeInOrder(_, _)
\* the tests made in the given order, the first that applies deciding
TypeInOrder(m, order) ==
    IF order = <<>> THEN ""
    ELSE IF TypeTest(Head(order), m) # "" THEN TypeTest(Head(order), m)
    ELSE TypeInOrder(m, Tail(order))

TestOrders == {o \in [1..6 -> 1..6] : \A k \in 1..6 : \E j \in 1..6 : o[j] = k}

\* C4: a mode carrying exactly one classification gets exactly its token
\* and no error, the empty token is returned only when no classification
\* applies, and the order of the tests does not change the result.
C4_TypeClassifies ==
    last.kw = "type" =>
        LET cs == Classifications(info.mode)
        IN  /\ last.err = NilErr /\ ~last.panicked
            /\ Cardinality(cs) = 1 =>
                 /\ \A c \in cs : last.token = "type=" \o c
                 /\ \A o \in TestOrders : TypeInOrder(info.mode, o) = last.token
            /\ last.token = "" => cs = {}

C4_Witness ==
    /\ last.kw = "type"
    /\ info.mode.flags = {"ModeDevice", "ModeCharDevice", "ModeSetuid"}
    /\ last.token = "type=char"

\* the mode word: permission bits with 04000, 02000, 01000 for setuid,
\* setgid and sticky
ModeWord(m) ==
    (m.perm % 512)
    + (IF "ModeSetuid" \in m.flags THEN 2048 ELSE 0)
    + (IF "ModeSetgid" \in m.flags THEN 1024 ELSE 0)
    + (IF "ModeSticky" \in m.flags THEN 512 ELSE 0)

\* C5 as stated: mode=0<octal> with <octal> the octal digits of the mode word.
C5_ModeIsZeroThenOctal ==
    last.kw = "mode" =>
        /\ last.err = NilErr /\ ~last.panicked
        /\ last.token = "mode=0" \o Digits(ModeWord(info.mode), 8)

\* C5 amended: mode=0<octal> for a mode word other than zero and mode=0 for
\* the mode word zero; setuid, setgid and sticky each add their bit whatever
\* the other flags and the type bits; 0644 with setgid gives mode=02644.
C5_ModeOctal ==
    last.kw = "mode" =>
        /\ last.err = NilErr /\ ~last.panicked
        /\ last.token = IF ModeWord(info.mode) = 0 THEN "mode=0"
                        ELSE "mode=0" \o Digits(ModeWord(info.mode), 8)
        /\ (info.mode.perm = 420 /\ info.mode.flags \cap SpecialBits = {"ModeSetgid"})
              => last.token = "mode=02644"

C5_Witness ==
    /\ last.kw = "mode"
    /\ info.mode.perm = 420
    /\ info.mode.flags = {"ModeDir", "ModeSetgid"}
    /\ last.token = "mode=02644"

\* C6 as stated: (1) a recorded, non-empty archive link target is returned
\* without a readlink; (2) otherwise a symlink mode means one readlink on path,
\* giving link=<target> or an error; (3) every other entry gives the empty
\* token.
C6_LinkThreeCases ==
    last.kw = "link" =>
        IF info.sys.isTar /\ info.sys.Linkname # ""
        THEN /\ last.token = "link=" \o info.sys.Linkname
             /\ last.err = NilErr /\ last.readlinks = 0
        ELSE IF "ModeSymlink" \in info.mode.flags
        THEN /\ last.readlinks = 1
             /\ fs.readlinkOk => (last.token = "link=" \o fs.target /\ last.err = NilErr)
             /\ ~fs.readlinkOk => (last.token = "" /\ last.err # NilErr)
        ELSE /\ last.token = "" /\ last.err = NilErr /\ last.readlinks = 0

\* C6 amended: case (2) holds for entries without archive metadata only; an
\* archive entry with an empty recorded target gives the empty token and no
\* readlink, whatever its mode.
C6_LinkByProvenance ==
    last.kw = "link" =>
        IF info.sys.isTar
        THEN /\ last.readlinks = 0 /\ last.err = NilErr
             /\ last.token = IF info.sys.Linkname # ""
                             THEN "link=" \o info.sys.Linkname ELSE ""
        ELSE IF "ModeSymlink" \in info.mode.flags
        THEN /\ last.readlinks = 1
             /\ fs.readlinkOk => (last.token = "link=" \o fs.target /\ last.err = NilErr)
             /\ ~fs.readlinkOk => (last.token = "" /\ last.err # NilErr)
        ELSE /\ last.token = "" /\ last.err = NilErr /\ last.readlinks = 0

C6_Witness ==
    /\ last.kw = "link"
    /\ info.sys.isTar /\ info.sys.Linkname = ""
    /\ "ModeSymlink" \in info.mode.flags
    /\ last.token = "" /\ last.readlinks = 0

\* the byte length of each recorded link target
TargetLength(n) ==
    CASE n = "" -> "0" [] n = "abc" -> "3" [] n = "target.txt" -> "10"

\* C7: an archive entry whose type flag is symlink has the byte length of
\* its link target as size, whatever the size field says; every other entry
\* has the size field; size never gives the empty token or an error.
C7_SizeOfArchiveSymlink ==
    last.kw = "size" =>
        /\ last.err = NilErr /\ ~last.panicked /\ last.token # ""
        /\ last.token = IF info.sys.isTar /\ info.sys.Typeflag = TypeSymlink
                        THEN "size=" \o TargetLength(info.sys.Linkname)
                        ELSE "size=" \o FmtD(info.size)

C7_Witness ==
    /\ last.kw = "size"
    /\ info.sys = TarHeader(TypeSymlink, "abc")
    /\ info.size = MaxSize
    /\ last.token = "size=3"

SynonymGroups ==
    {{"md5", "md5digest"}, {"rmd160", "rmd160digest", "ripemd160digest"},
     {"sha1", "sha1digest"}, {"sha256", "sha256digest"},
     {"sha384", "sha384digest"}, {"sha512", "sha512digest"},
     {"xattr", "xattrs"}}

\* what the call recorded in last returned
LastOut ==
    [token |-> last.token, err |-> last.err, panicked |-> last.panicked,
     pos |-> last.pos, read |-> last.read, reads |-> last.reads,
     readlinks |-> last.readlinks]

\* C8: a call through one name of a synonym group ends as the call through
\* any other name of the group on the same entry from the same reader
\* position would: same token with the same keyword name, same error; the
\* names of a group use one hash.
C8_SynonymsAgree ==
    \A g \in SynonymGroups : last.kw \in g =>
        \A k \in g :
            /\ Call(k, info, fs, [r EXCEPT !.pos = last.pos0]) = LastOut
            /\ KeywordFuncs[k].newHash = KeywordFuncs[last.kw].newHash

C8_Witness ==
    /\ last.kw = "sha1"
    /\ IsRegular(info.mode)
    /\ last.pos0 = 0
    /\ r.content = "ab"
    /\ last.token = "sha1digest=sha1(ab)"

\* C9: on a regular file a content keyword reads from the reader's position
\* to the end and never moves it back; called at offset 0 it digests the
\* whole content; called right after a successful content keyword with no
\* reset between, it digests no byte and returns the digest of the empty
\* input with no error.
C9_ReaderIsNotRewound ==
    (last.kw \in ContentKeywords /\ IsRegular(info.mode)) =>
        /\ last.pos >= last.pos0
        /\ last.read = SubSeq(r.content, last.pos0 + 1, last.pos)
        /\ last.err = NilErr => last.pos = Len(r.content)
        /\ (last.err = NilErr /\ last.pos0 = 0)
              => last.token = TokenOver(last.kw, r.content)
        /\ last.chain0 =>
              /\ last.err = NilErr
              /\ last.read = ""
              /\ last.token = TokenOver(last.kw, "")
              /\ r.content # "" => last.token # TokenOver(last.kw, r.content)

C9_Witness ==
    /\ last.kw = "md5"
    /\ last.chain0
    /\ r.content = "ab"
    /\ last.token = "md5digest=md5()"

====
